---- MODULE Spec2Model ----
(***************************************************************************)
(* StyleWeave (js/script.js): the five page components ThemeManager,       *)
(* FavoriteManager, ProductInteractions, SmoothScroll and LazyLoader, the  *)
(* DOMContentLoaded handler that constructs them, localStorage shared by   *)
(* the tabs of the origin, and the event handlers the components attach.   *)
(*                                                                         *)
(* Every handler runs to completion (JavaScript is single threaded), so    *)
(* each handler is one action.  A handler is written as an operator on a   *)
(* "world" w = [storage, doc, wrote]: the storage, the document and script *)
(* objects of one tab, and the storage keys the handler has written.       *)
(*                                                                         *)
(* Page structure: nb .favorite-btn elements, nc .product-card elements    *)
(* and ni .product-image elements, numbered from 0 in document order;      *)
(* button i lies inside card i when that card exists and outside every     *)
(* card otherwise.  The markup gives no button the class 'active' and no   *)
(* image the class 'loaded'.  The inline style changes of toggleTheme and  *)
(* animateButton (transform, animation) are not part of the state.         *)
(***************************************************************************)
EXTENDS Integers, Sequences, FiniteSets, TLC

\* ---------------------------------------------------------------- bounds
MaxButtons == 2     \* .favorite-btn elements on the page
MaxCards == 1       \* .product-card elements on the page
MaxImages == 1      \* .product-image elements on the page
MaxStoredLen == 2   \* length of an array found in storage at the first load
MaxRipples == 1     \* ripple spans alive at once on one card

\* ------------------------------------------------------------- constants
Tabs == {1, 2}
ThemeKey == "styleweave-theme"
FavKey == "styleweave-favorites"
Keys == {ThemeKey, FavKey}
Components == {"ThemeManager", "FavoriteManager", "ProductInteractions",
               "SmoothScroll", "LazyLoader"}

\* ------------------------------------------------------ JavaScript values
\* null, as returned by localStorage.getItem for an absent key
Null == "<null>"
Undefined == [kind |-> "undefined"]
Arr(s) == [kind |-> "array", elems |-> s]
\* a string of decimal digits, e.g. Str(<<1, 0>>) is "10"
Str(c) == [kind |-> "string", chars |-> c]
\* a JSON value that is neither an array nor a string: number, object, true, null
Other == [kind |-> "other"]
Throw == [kind |-> "throw"]

\* texts the key 'styleweave-favorites' can hold
NullItem == [kind |-> "null"]
EmptyText == [kind |-> "text", form |-> "empty"]
BadText == [kind |-> "text", form |-> "invalid"]
JsonText(v) == [kind |-> "text", form |-> "json", value |-> v]

\* truthiness of what getItem returned (line 82: stored ? ... : [])
Truthy(t) == t.kind = "text" /\ t.form # "empty"

JSONparse(t) == IF t.form = "json" THEN t.value ELSE Throw

JSONstringify(v) == JsonText(v)

\* Array.prototype.includes / String.prototype.includes with a number below 10
Includes(v, i) == \E k \in DOMAIN (IF v.kind = "array" THEN v.elems ELSE v.chars) :
                     (IF v.kind = "array" THEN v.elems ELSE v.chars)[k] = i

HasIncludes(v) == v.kind \in {"array", "string"}

RECURSIVE FilterOut(_, _)
FilterOut(s, x) == IF s = <<>> THEN <<>>
                   ELSE IF Head(s) = x THEN FilterOut(Tail(s), x)
                   ELSE <<Head(s)>> \o FilterOut(Tail(s), x)

\* this.favorites.filter(id => id !== productIndex); only arrays have filter
Filter(v, i) == IF v.kind = "array" THEN Arr(FilterOut(v.elems, i)) ELSE Throw

\* this.favorites.push(productIndex); only arrays have push
Push(v, i) == IF v.kind = "array" THEN Arr(Append(v.elems, i)) ELSE Throw

\* --------------------------------------------------------------- state
VARIABLES storage,     \* localStorage: key -> stored text (Null when absent)
          page,        \* structure of the page served to every tab
          tab,         \* tab -> document and script objects of that tab
          lastWriter,  \* tab that called setStoredFavorites last (0: none)
          lastStep     \* kind of the last step: a load, a reload or an event handler

vars == <<storage, page, tab, lastWriter, lastStep>>

Buttons == 0 .. (page.nb - 1)
Cards == 0 .. (page.nc - 1)
Images == 0 .. (page.ni - 1)

\* anchors a[href^="#"] of the page: href -> what document.querySelector does
Anchors == {"#top", "#missing", "#"}
QuerySelector(href) == IF href = "#top" THEN "top"
                       ELSE IF href = "#missing" THEN Null
                       ELSE "throw"

\* a document before DOMContentLoaded has run
FreshDoc == [loaded |-> FALSE, inited |-> {},
             currentTheme |-> Null, dataTheme |-> Null,
             favorites |-> Undefined, active |-> {},
             observed |-> {}, imgLoaded |-> {}, reported |-> {},
             ripples |-> [c \in Cards |-> 0], scrolledTo |-> Null]

W(t) == [storage |-> storage, doc |-> tab[t], wrote |-> {}]

\* --------------------------------------------------------- ThemeManager
getStoredTheme(w) == w.storage[ThemeKey]

setStoredTheme(w, theme) ==
    [w EXCEPT !.storage[ThemeKey] = theme, !.wrote = @ \cup {ThemeKey}]

\* applyTheme without the call of setStoredTheme
applyThemeNoStore(w, theme) ==
    [w EXCEPT !.doc.dataTheme = theme, !.doc.currentTheme = theme]

applyTheme(w, theme) ==
    setStoredTheme([w EXCEPT !.doc.dataTheme = theme, !.doc.currentTheme = theme], theme)

toggleTheme(w) ==
    applyTheme(w, IF w.doc.currentTheme = "light" THEN "dark" ELSE "light")

\* constructor + init: getStoredTheme() || 'light', then applyTheme
ThemeManagerNew(w) ==
    LET stored == getStoredTheme(w)
        theme == IF stored = Null \/ stored = "" THEN "light" ELSE stored
        w1 == applyTheme(w, theme)
    IN [w1 EXCEPT !.doc.inited = @ \cup {"ThemeManager"}]

ThemeListener(w) == "ThemeManager" \in w.doc.inited /\ page.hasToggle

\* a click on the theme toggle
ThemeClick(w) == IF ThemeListener(w) THEN toggleTheme(w) ELSE w

\* ------------------------------------------------------- FavoriteManager
getStoredFavorites(w) ==
    LET stored == w.storage[FavKey]
    IN IF Truthy(stored) THEN JSONparse(stored) ELSE Arr(<<>>)

setStoredFavorites(w) ==
    [w EXCEPT !.storage[FavKey] = JSONstringify(w.doc.favorites),
              !.wrote = @ \cup {FavKey}]

\* a constructor that also writes the list it has read back to storage
FavoriteManagerNewStores(w) ==
    LET fav == getStoredFavorites(w)
    IN IF fav = Throw THEN [w |-> w, threw |-> TRUE]
       ELSE LET w1 == [w EXCEPT !.doc.favorites = fav]
            IN IF Buttons # {} /\ ~HasIncludes(fav) THEN [w |-> w1, threw |-> TRUE]
               ELSE [w |-> setStoredFavorites(
                              [w1 EXCEPT !.doc.active = @ \cup {i \in Buttons : Includes(fav, i)},
                                         !.doc.inited = @ \cup {"FavoriteManager"}]),
                     threw |-> FALSE]

\* constructor + init; the result tells whether an exception left the constructor
FavoriteManagerNew(w) ==
    LET fav == getStoredFavorites(w)
    IN IF fav = Throw THEN [w |-> w, threw |-> TRUE]
       ELSE LET w1 == [w EXCEPT !.doc.favorites = fav]
            IN IF Buttons # {} /\ ~HasIncludes(fav) THEN [w |-> w1, threw |-> TRUE]
               ELSE [w |-> [w1 EXCEPT !.doc.active = @ \cup {i \in Buttons : Includes(fav, i)},
                                      !.doc.inited = @ \cup {"FavoriteManager"}],
                     threw |-> FALSE]

\* toggleFavorite that removes the class but leaves the index in the list
toggleFavoriteNoFilter(w, i) ==
    IF i \in w.doc.active
    THEN setStoredFavorites([w EXCEPT !.doc.active = @ \ {i}])
    ELSE LET w1 == [w EXCEPT !.doc.active = @ \cup {i}]
             f == Push(w.doc.favorites, i)
         IN IF f = Throw THEN w1
            ELSE setStoredFavorites([w1 EXCEPT !.doc.favorites = f])

\* toggleFavorite that calls setStoredFavorites before it changes the list
toggleFavoriteStoreFirst(w, i) ==
    LET w0 == setStoredFavorites(w)
    IN IF i \in w.doc.active
       THEN LET f == Filter(w.doc.favorites, i)
            IN IF f = Throw THEN [w0 EXCEPT !.doc.active = @ \ {i}]
               ELSE [w0 EXCEPT !.doc.active = @ \ {i}, !.doc.favorites = f]
       ELSE LET f == Push(w.doc.favorites, i)
            IN IF f = Throw THEN [w0 EXCEPT !.doc.active = @ \cup {i}]
               ELSE [w0 EXCEPT !.doc.active = @ \cup {i}, !.doc.favorites = f]

toggleFavorite(w, i) ==
    IF i \in w.doc.active
    THEN LET w1 == [w EXCEPT !.doc.active = @ \ {i}]
             f == Filter(w.doc.favorites, i)
         IN IF f = Throw THEN w1
            ELSE setStoredFavorites([w1 EXCEPT !.doc.favorites = f])
    ELSE LET w1 == [w EXCEPT !.doc.active = @ \cup {i}]
             f == Push(w.doc.favorites, i)
         IN IF f = Throw THEN w1
            ELSE setStoredFavorites([w1 EXCEPT !.doc.favorites = f])

FavListener(w) == "FavoriteManager" \in w.doc.inited

\* --------------------------------------------------- ProductInteractions
createRipple(w, c) == [w EXCEPT !.doc.ripples[c] = @ + 1]

\* card.querySelector('.product-name').textContent throws when the card has no name
onCardClick(w, c) == IF page.hasName THEN createRipple(w, c) ELSE w

CardListener(w) == "ProductInteractions" \in w.doc.inited

\* e.target.closest('.favorite-btn') is not null
Closest(target) == target.el = "favorite-btn"

\* a dispatch in which the card's listener runs for every click inside the card
DispatchClickNoGuard(w, target) ==
    LET onBtn == target.el = "favorite-btn" /\ FavListener(w)
        w1 == IF onBtn THEN toggleFavorite(w, target.i) ELSE w
    IN IF target.i \in Cards /\ CardListener(w1)
       THEN onCardClick(w1, target.i)
       ELSE w1

\* a click on target (favorite button target.i, or a point of card target.i
\* outside its button): the button's listener runs first, then the listener
\* of the enclosing card unless propagation was stopped
DispatchClick(w, target) ==
    LET onBtn == target.el = "favorite-btn" /\ FavListener(w)
        w1 == IF onBtn THEN toggleFavorite(w, target.i) ELSE w
        stopPropagation == onBtn
    IN IF ~stopPropagation /\ target.i \in Cards /\ CardListener(w1) /\ ~Closest(target)
       THEN onCardClick(w1, target.i)
       ELSE w1

\* ---------------------------------------------------------- SmoothScroll
AnchorListener(w) == "SmoothScroll" \in w.doc.inited

AnchorClick(w, href) ==
    LET target == QuerySelector(href)
    IN IF AnchorListener(w) /\ target \notin {Null, "throw"}
       THEN [w EXCEPT !.doc.scrolledTo = target]
       ELSE w

\* ------------------------------------------------------------ LazyLoader
LazyLoaderNew(w) ==
    [w EXCEPT !.doc.observed = IF page.hasIO THEN Images ELSE {},
              !.doc.inited = @ \cup {"LazyLoader"}]

\* a callback that uses classList.toggle instead of classList.add
IntersectionCallbackToggle(w, entries, intersecting) ==
    [w EXCEPT !.doc.imgLoaded = (@ \ (entries \cap intersecting))
                                  \cup ((entries \cap intersecting) \ @),
              !.doc.observed = @ \ (entries \cap intersecting),
              !.doc.reported = @ \cup (entries \cap intersecting)]

\* a callback that does not test entry.isIntersecting
IntersectionCallbackAll(w, entries, intersecting) ==
    [w EXCEPT !.doc.imgLoaded = @ \cup entries,
              !.doc.observed = @ \ entries,
              !.doc.reported = @ \cup (entries \cap intersecting)]

\* the observer callback, given the entries and those of them that intersect;
\* doc.reported records the images reported as intersecting
IntersectionCallback(w, entries, intersecting) ==
    [w EXCEPT !.doc.imgLoaded = @ \cup (entries \cap intersecting),
              !.doc.observed = @ \ (entries \cap intersecting),
              !.doc.reported = @ \cup (entries \cap intersecting)]

\* ------------------------------------------------- DOMContentLoaded handler
InitOthers(w) ==
    LazyLoaderNew([w EXCEPT !.doc.inited = @ \cup {"ProductInteractions", "SmoothScroll"}])

DOMContentLoaded(w) ==
    LET w1 == ThemeManagerNew([w EXCEPT !.doc = [FreshDoc EXCEPT !.loaded = TRUE]])
        r == FavoriteManagerNew(w1)
    IN IF r.threw THEN r.w ELSE InitOthers(r.w)

\* ----------------------------------------------------------------- Init
\* indices found in a stored array: a button of the page, and no button of it
StoredIdx == {0, MaxButtons}

SeqsUpTo(S, n) == UNION {[1 .. k -> S] : k \in 0 .. n}

InitialThemes == {Null, "", "light", "dark", "blue"}

InitialFavorites ==
    {NullItem, EmptyText, BadText, JsonText(Other),
     JsonText(Str(<<0>>)), JsonText(Str(<<1, 0>>))}
    \cup {JsonText(Arr(s)) : s \in SeqsUpTo(StoredIdx, MaxStoredLen)}

Pages == [nb : 0 .. MaxButtons, nc : 0 .. MaxCards, ni : 0 .. MaxImages,
          hasToggle : BOOLEAN, hasName : BOOLEAN, hasIO : BOOLEAN]

Init ==
    /\ page \in Pages
    /\ \E th \in InitialThemes, fv \in InitialFavorites :
          storage = [k \in Keys |-> IF k = ThemeKey THEN th ELSE fv]
    /\ tab = [t \in Tabs |-> FreshDoc]
    /\ lastWriter = 0
    /\ lastStep = "none"

\* -------------------------------------------------------------- actions
Commit(t, w, e) ==
    /\ storage' = w.storage
    /\ tab' = [tab EXCEPT ![t] = w.doc]
    /\ lastWriter' = IF FavKey \in w.wrote THEN t ELSE lastWriter
    /\ lastStep' = e
    /\ UNCHANGED page

\* the tab is opened or reloaded
Load(t) ==
    Commit(t, DOMContentLoaded(W(t)), IF tab[t].loaded THEN "reload" ELSE "load")

ThemeToggleClick(t) ==
    /\ tab[t].loaded /\ page.hasToggle
    /\ Commit(t, ThemeClick(W(t)), "event")

FavBtnClick(t, i) ==
    /\ tab[t].loaded /\ i \in Buttons
    /\ Commit(t, DispatchClick(W(t), [el |-> "favorite-btn", i |-> i]), "event")

CardClick(t, c) ==
    /\ tab[t].loaded /\ c \in Cards
    /\ tab[t].ripples[c] < MaxRipples
    /\ Commit(t, DispatchClick(W(t), [el |-> "product-card", i |-> c]), "event")

\* setTimeout(() => ripple.remove(), 600)
RippleTimeout(t, c) ==
    /\ tab[t].loaded /\ c \in Cards
    /\ tab[t].ripples[c] > 0
    /\ Commit(t, [W(t) EXCEPT !.doc.ripples[c] = @ - 1], "event")

AnchorClicked(t, href) ==
    /\ tab[t].loaded
    /\ Commit(t, AnchorClick(W(t), href), "event")

Intersect(t, entries, intersecting) ==
    /\ tab[t].loaded
    /\ entries # {} /\ entries \subseteq tab[t].observed
    /\ intersecting \subseteq entries
    /\ Commit(t, IntersectionCallback(W(t), entries, intersecting), "event")

Step(t) ==
    \/ Load(t)
    \/ ThemeToggleClick(t)
    \/ \E i \in Buttons : FavBtnClick(t, i)
    \/ \E c \in Cards : CardClick(t, c)
    \/ \E c \in Cards : RippleTimeout(t, c)
    \/ \E href \in Anchors : AnchorClicked(t, href)
    \/ \E entries \in SUBSET Images : \E intersecting \in SUBSET entries :
          Intersect(t, entries, intersecting)

\* one tab
Next == Step(1)

Spec == Init /\ [][Next]_vars

\* the first load finds the favorites key absent or holding an array without
\* duplicates
NoDup(s) == \A j, k \in DOMAIN s : s[j] = s[k] => j = k

DistinctText(t) == t = NullItem \/ (t.kind = "text" /\ t.form = "json"
                                    /\ t.value.kind = "array" /\ NoDup(t.value.elems))

InitDistinct == Init /\ DistinctText(storage[FavKey])

SpecDistinct == InitDistinct /\ [][Next]_vars

\* two tabs of the same origin; the handlers that use storage
InitTabs == Init /\ page.nc = 0 /\ page.ni = 0 /\ ~page.hasName /\ ~page.hasIO

TabStep(t) ==
    \/ Load(t)
    \/ ThemeToggleClick(t)
    \/ \E i \in Buttons : FavBtnClick(t, i)

NextTabs == \E t \in Tabs : TabStep(t)

SpecTabs == InitTabs /\ [][NextTabs]_vars

TypeOK == /\ page \in Pages
          /\ lastWriter \in {0} \cup Tabs
          /\ lastStep \in {"none", "load", "reload", "event"}
          /\ \A t \in Tabs : /\ tab[t].active \subseteq Buttons
                             /\ tab[t].imgLoaded \subseteq Images
                             /\ tab[t].inited \subseteq Components

\* ================================================================ claims

\* C1: a reload gives the class 'active' to exactly the buttons that were
\* active immediately before the reload.
C1_ReloadRestoresFavorites ==
    [][lastStep' = "reload" =>
          \A t \in Tabs : (tab[t].loaded /\ Load(t)) => tab'[t].active = tab[t].active]_vars

\* C2: a reload applies as data-theme the theme that was in effect immediately
\* before it, and a load that finds the key 'styleweave-theme' absent applies
\* 'light'.
C2_ReloadRestoresTheme ==
    [][lastStep' \in {"load", "reload"} =>
          \A t \in Tabs : Load(t) =>
             /\ tab[t].loaded => tab'[t].dataTheme = tab[t].dataTheme
             /\ storage[ThemeKey] = Null => tab'[t].dataTheme = "light"]_vars

C2_Witness ==
    /\ lastStep = "reload"
    /\ tab[1].dataTheme = "dark" /\ storage[ThemeKey] = "dark"
    /\ page.hasToggle

\* C3: in every loaded page, currentTheme, data-theme and the stored theme are
\* each 'light' or 'dark', whatever the storage held at the load.
C3_ThemeIsBinary ==
    \A t \in Tabs : tab[t].loaded =>
        /\ tab[t].currentTheme \in {"light", "dark"}
        /\ tab[t].dataTheme \in {"light", "dark"}
        /\ storage[ThemeKey] \in {"light", "dark"}

\* C4: after the DOMContentLoaded handler every component is initialized,
\* whatever happened while the components before it were constructed.
C4_NoOrderingDependency ==
    \A t \in Tabs : tab[t].loaded => tab[t].inited = Components

\* C5: a theme toggle click leaves the favorites list, the stored favorites
\* and the active classes unchanged; a favorite button click leaves the theme
\* unchanged and creates no ripple; a card click outside the favorite button
\* leaves the theme and the favorites unchanged.
C5_ComponentsDoNotInteract ==
    [][lastStep' = "event" => \A t \in Tabs :
          /\ (/\ tab'[t].favorites = tab[t].favorites
              /\ tab'[t].active = tab[t].active
              /\ storage'[FavKey] = storage[FavKey])
             \/ ~ThemeToggleClick(t)
          /\ (/\ tab'[t].currentTheme = tab[t].currentTheme
              /\ tab'[t].dataTheme = tab[t].dataTheme
              /\ storage'[ThemeKey] = storage[ThemeKey]
              /\ tab'[t].ripples = tab[t].ripples)
             \/ ~\E i \in Buttons : FavBtnClick(t, i)
          /\ (/\ tab'[t].currentTheme = tab[t].currentTheme
              /\ tab'[t].dataTheme = tab[t].dataTheme
              /\ storage'[ThemeKey] = storage[ThemeKey]
              /\ tab'[t].favorites = tab[t].favorites
              /\ tab'[t].active = tab[t].active
              /\ storage'[FavKey] = storage[FavKey])
             \/ ~\E c \in Cards : CardClick(t, c)]_vars

C5_Witness ==
    /\ lastStep = "event"
    /\ page.hasToggle /\ tab[1].dataTheme = "dark" /\ storage[ThemeKey] = "dark"
    /\ 0 \in Cards /\ tab[1].ripples[0] = 1
    /\ tab[1].active = {0, 1} /\ storage[FavKey] = JsonText(Arr(<<1, 0>>))

\* the DOM state and the stored values C6 compares
View(w) == [dataTheme |-> w.doc.dataTheme, active |-> w.doc.active,
            imgLoaded |-> w.doc.imgLoaded, ripples |-> w.doc.ripples,
            storage |-> w.storage]

FavTarget(i) == [el |-> "favorite-btn", i |-> i]
CardTarget(c) == [el |-> "product-card", i |-> c]

\* C6 (as claimed): in every state of a loaded page, running any event handler
\* twice in a row on the same element leaves the same DOM state and stored
\* values as running it once.
C6_AllHandlersIdempotent ==
    \A t \in Tabs : tab[t].loaded =>
        /\ View(ThemeClick(ThemeClick(W(t)))) = View(ThemeClick(W(t)))
        /\ \A i \in Buttons :
              View(DispatchClick(DispatchClick(W(t), FavTarget(i)), FavTarget(i)))
                 = View(DispatchClick(W(t), FavTarget(i)))
        /\ \A c \in Cards :
              View(DispatchClick(DispatchClick(W(t), CardTarget(c)), CardTarget(c)))
                 = View(DispatchClick(W(t), CardTarget(c)))
        /\ \A href \in Anchors :
              View(AnchorClick(AnchorClick(W(t), href), href)) = View(AnchorClick(W(t), href))
        /\ \A entries \in SUBSET tab[t].observed : \A intersecting \in SUBSET entries :
              View(IntersectionCallback(IntersectionCallback(W(t), entries, intersecting),
                                        entries, intersecting))
                 = View(IntersectionCallback(W(t), entries, intersecting))

\* C6 (amended): the anchor click and the intersection callback are
\* idempotent; the theme toggle click and the favorite button click are
\* toggles, whose second run changes data-theme, respectively the button's
\* 'active' class, again; every card click on a card with a name adds one
\* more ripple.
C6_OnlyScrollAndRevealIdempotent ==
    \A t \in Tabs : tab[t].loaded =>
        /\ \A href \in Anchors :
              AnchorClick(AnchorClick(W(t), href), href) = AnchorClick(W(t), href)
        /\ \A entries \in SUBSET tab[t].observed : \A intersecting \in SUBSET entries :
              IntersectionCallback(IntersectionCallback(W(t), entries, intersecting),
                                   entries, intersecting)
                 = IntersectionCallback(W(t), entries, intersecting)
        /\ ThemeListener(W(t)) =>
              ThemeClick(ThemeClick(W(t))).doc.dataTheme # ThemeClick(W(t)).doc.dataTheme
        /\ \A i \in Buttons : FavListener(W(t)) =>
              (i \in DispatchClick(DispatchClick(W(t), FavTarget(i)), FavTarget(i)).doc.active)
                 # (i \in DispatchClick(W(t), FavTarget(i)).doc.active)
        /\ \A c \in Cards : (CardListener(W(t)) /\ page.hasName) =>
              DispatchClick(DispatchClick(W(t), CardTarget(c)), CardTarget(c)).doc.ripples[c]
                 = DispatchClick(W(t), CardTarget(c)).doc.ripples[c] + 1

C6_Witness ==
    /\ lastStep = "event"
    /\ tab[1].imgLoaded = {0} /\ tab[1].scrolledTo = "top"
    /\ ThemeListener(W(1)) /\ tab[1].dataTheme = "dark"
    /\ tab[1].active = {1} /\ 0 \in Cards /\ tab[1].ripples[0] = 1

\* C7 (as claimed): the storage is written only in a step that handles a click
\* on the theme toggle or on a favorite button; in particular a page load
\* leaves both keys as they were.
C7_StorageChangesOnlyOnClick ==
    [][storage' # storage =>
          \E t \in Tabs : ThemeToggleClick(t) \/ \E i \in Buttons : FavBtnClick(t, i)]_vars

\* C7 (amended): 'styleweave-favorites' changes only in a click on a favorite
\* button; 'styleweave-theme' changes only in a click on the theme toggle or
\* in a page load; a page load leaves 'styleweave-favorites' as it was and
\* sets 'styleweave-theme' to the theme it applies (the stored one, 'light'
\* when the key is absent or empty).
C7_FavoritesOnClickThemeOnClickOrLoad ==
    [][/\ storage'[FavKey] # storage[FavKey] =>
             \E t \in Tabs : \E i \in Buttons : FavBtnClick(t, i)
       /\ storage'[ThemeKey] # storage[ThemeKey] =>
             \E t \in Tabs : ThemeToggleClick(t) \/ Load(t)
       /\ lastStep' \in {"load", "reload"} => \A t \in Tabs : Load(t) =>
             /\ storage'[FavKey] = storage[FavKey]
             /\ storage'[ThemeKey] = (IF storage[ThemeKey] \in {Null, ""} THEN "light"
                                      ELSE storage[ThemeKey])
             /\ storage'[ThemeKey] = tab'[t].dataTheme]_vars

C7_Witness ==
    /\ lastStep = "load"
    /\ storage[ThemeKey] = "light" /\ tab[1].dataTheme = "light"
    /\ storage[FavKey] = NullItem /\ tab[1].favorites = Arr(<<>>)

\* C8: an image has the class 'loaded' only if the observer has reported it as
\* intersecting; a loaded image is no longer observed; 'loaded' is never
\* removed while the document lives; without IntersectionObserver no image is
\* ever loaded.
C8_LazyReveal ==
    /\ [](\A t \in Tabs :
            /\ tab[t].imgLoaded \subseteq tab[t].reported
            /\ tab[t].imgLoaded \cap tab[t].observed = {}
            /\ ~page.hasIO => tab[t].imgLoaded = {})
    /\ [][\A t \in Tabs : tab[t].imgLoaded \subseteq tab'[t].imgLoaded \/ Load(t)]_vars

C8_Witness ==
    /\ lastStep = "event"
    /\ page.hasIO /\ tab[1].imgLoaded = {0} /\ tab[1].observed = {} /\ tab[1].reported = {0}

\* C9: when the first load finds 'styleweave-favorites' absent or holding an
\* array without duplicates, then in every loaded page the favorites list
\* holds no index twice and a button is active exactly when its index is in
\* the list, and after every favorite button click the stored array is the
\* favorites list.
C9_FavoritesMirrorButtons ==
    /\ [](\A t \in Tabs : tab[t].loaded =>
            /\ tab[t].favorites.kind = "array"
            /\ NoDup(tab[t].favorites.elems)
            /\ \A i \in Buttons : i \in tab[t].active <=> Includes(tab[t].favorites, i))
    /\ [][lastStep' = "event" => \A t \in Tabs : \A i \in Buttons : FavBtnClick(t, i) =>
             storage'[FavKey] = JSONstringify(tab'[t].favorites)]_vars

C9_Witness ==
    /\ lastStep = "event"
    /\ tab[1].favorites = Arr(<<MaxButtons, 1, 0>>)
    /\ tab[1].active = {0, 1}
    /\ storage[FavKey] = JsonText(Arr(<<MaxButtons, 1, 0>>))

====
